---------------------------- MODULE Spec2Model ----------------------------
(***************************************************************************)
(* Chunk mesh generation of kyro: Terrain::get_chunk fills a density       *)
(* volume (terrain.rs) and marching_cubes::get_mesh_data turns it into a   *)
(* triangle mesh (marching_cubes.rs).                                      *)
(*                                                                         *)
(* f32 values are held in fixed point: the value v is the integer v * One, *)
(* products and quotients are rounded towards zero, and the three IEEE     *)
(* special values NaN, +inf and -inf are kept apart from finite numbers.   *)
(***************************************************************************)
EXTENDS Integers, Sequences, FiniteSets, TLC

VARIABLES
  pc,            \* where the caller is: start, idle, mesh, meshdata, returned, unpacked, panic_*
  asset,         \* which assets/triangulation.ron the process reads
  TRIANGULATION, \* the lazy_static: "unloaded" until its first dereference
  terrain,       \* the Terrain value, NoTerrain before Terrain::new
  chunk,         \* the argument of the running get_chunk call
  second,        \* the running get_chunk call repeats an earlier chunk coordinate
  matrix,        \* the Matrix3D handed to get_mesh_data
  scale,         \* the scale handed to get_mesh_data
  cube,          \* the loop variables (x, y, z) of get_mesh_data
  posns,         \* MeshData.posns
  norms,         \* MeshData.norms
  coords,        \* MeshData.coords
  indices,       \* the Vec<u16> of MeshData::get_mesh_data
  visited,       \* the cube origins handed to get_cube_tris by the running call
  last,          \* locals of the latest get_cube_tris call: id, vals, reads, edges
  hist,          \* per chunk coordinate, what the first get_chunk call returned
  nPosns,        \* posns.len() of a mesh too long to hold as a sequence
  nNorms,        \* norms.len() of that mesh
  nCoords,       \* coords.len() of that mesh
  nIndices       \* the length of the Vec<u16> unpacked from that mesh

vars == <<pc, asset, TRIANGULATION, terrain, chunk, second, matrix, scale, cube,
          posns, norms, coords, indices, visited, last, hist,
          nPosns, nNorms, nCoords, nIndices>>

---------------------------------------------------------------------------
(* Bounds of the model. *)
MaxPoints == 2
MaxVertices == 65550

---------------------------------------------------------------------------
(* f32 *)
One == 6 * 10
Half == One \div 2
NaN == 0 - (10 ^ 9)
PInf == 10 ^ 9
NInf == 0 - (10 ^ 9) + 1
CUTOFF == 0

IsNaN(a) == a = NaN
IsInf(a) == a = PInf \/ a = NInf
Finite(a) == NInf < a /\ a < PInf
Sign(a) == IF a > 0 THEN 1 ELSE IF a < 0 /\ ~IsNaN(a) THEN -1 ELSE 0
SignedInf(s) == IF s > 0 THEN PInf ELSE NInf
\* integer quotient rounded towards zero
Quot(a, b) ==
  IF a >= 0 THEN (IF b > 0 THEN a \div b ELSE 0 - (a \div (0 - b)))
  ELSE (IF b > 0 THEN 0 - ((0 - a) \div b) ELSE (0 - a) \div (0 - b))

\* usize as f32
F32(n) == n * One
FNeg(a) ==
  IF Finite(a) THEN 0 - a
  ELSE IF IsNaN(a) THEN NaN ELSE IF a = PInf THEN NInf ELSE PInf
FAdd(a, b) ==
  IF Finite(a) /\ Finite(b) THEN a + b
  ELSE IF IsNaN(a) \/ IsNaN(b) THEN NaN
  ELSE IF IsInf(a) /\ IsInf(b) THEN (IF a = b THEN a ELSE NaN)
  ELSE IF IsInf(a) THEN a
  ELSE b
FSub(a, b) == FAdd(a, FNeg(b))
FMul(a, b) ==
  IF Finite(a) /\ Finite(b) THEN Quot(a * b, One)
  ELSE IF IsNaN(a) \/ IsNaN(b) THEN NaN
  ELSE IF a = 0 \/ b = 0 THEN NaN
  ELSE SignedInf(Sign(a) * Sign(b))
FDiv(a, b) ==
  IF Finite(a) /\ Finite(b) /\ b # 0 THEN Quot(a * One, b)
  ELSE IF IsNaN(a) \/ IsNaN(b) THEN NaN
  ELSE IF IsInf(a) THEN (IF IsInf(b) THEN NaN
                         ELSE SignedInf(Sign(a) * (IF b < 0 THEN -1 ELSE 1)))
  ELSE IF IsInf(b) THEN 0
  ELSE IF a = 0 THEN NaN
  ELSE SignedInf(Sign(a))
FLt(a, b) == IF IsNaN(a) \/ IsNaN(b) THEN FALSE ELSE a < b

---------------------------------------------------------------------------
(* assets/triangulation.ron, read once through the lazy_static.  The file   *)
(* holds cube_points, cube_edges and the 256 rows of triangulation_table;   *)
(* CanonicalTable is the marching-cubes table for that corner and edge      *)
(* numbering, DegenerateTable a file of the same shape whose every row      *)
(* names one triangle on the edges 0, 8 and 3.                              *)
CUBE_POINTS ==
  << <<0, 0, 0>>, <<1, 0, 0>>, <<1, 1, 0>>, <<0, 1, 0>>,
     <<0, 0, 1>>, <<1, 0, 1>>, <<1, 1, 1>>, <<0, 1, 1>> >>
CUBE_EDGES ==
  << <<0, 1>>, <<1, 2>>, <<2, 3>>, <<3, 0>>, <<4, 5>>, <<5, 6>>,
     <<6, 7>>, <<7, 4>>, <<0, 4>>, <<1, 5>>, <<2, 6>>, <<3, 7>> >>
CanonicalTable ==
  << <<>>, <<0, 8, 3>>, <<0, 1, 9>>, <<1, 8, 3, 9, 8, 1>>, <<1, 2, 10>>, <<0, 8, 3, 1, 2, 10>>,
     <<9, 2, 10, 0, 2, 9>>, <<2, 8, 3, 2, 10, 8, 10, 9, 8>>, <<3, 11, 2>>,
     <<0, 11, 2, 8, 11, 0>>, <<1, 9, 0, 2, 3, 11>>, <<1, 11, 2, 1, 9, 11, 9, 8, 11>>,
     <<3, 10, 1, 11, 10, 3>>, <<0, 10, 1, 0, 8, 10, 8, 11, 10>>,
     <<3, 9, 0, 3, 11, 9, 11, 10, 9>>, <<9, 8, 10, 10, 8, 11>>, <<4, 7, 8>>,
     <<4, 3, 0, 7, 3, 4>>, <<0, 1, 9, 8, 4, 7>>, <<4, 1, 9, 4, 7, 1, 7, 3, 1>>,
     <<1, 2, 10, 8, 4, 7>>, <<3, 4, 7, 3, 0, 4, 1, 2, 10>>, <<9, 2, 10, 9, 0, 2, 8, 4, 7>>,
     <<2, 10, 9, 2, 9, 7, 2, 7, 3, 7, 9, 4>>, <<8, 4, 7, 3, 11, 2>>,
     <<11, 4, 7, 11, 2, 4, 2, 0, 4>>, <<9, 0, 1, 8, 4, 7, 2, 3, 11>>,
     <<4, 7, 11, 9, 4, 11, 9, 11, 2, 9, 2, 1>>, <<3, 10, 1, 3, 11, 10, 7, 8, 4>>,
     <<1, 11, 10, 1, 4, 11, 1, 0, 4, 7, 11, 4>>, <<4, 7, 8, 9, 0, 11, 9, 11, 10, 11, 0, 3>>,
     <<4, 7, 11, 4, 11, 9, 9, 11, 10>>, <<9, 5, 4>>, <<9, 5, 4, 0, 8, 3>>, <<0, 5, 4, 1, 5, 0>>,
     <<8, 5, 4, 8, 3, 5, 3, 1, 5>>, <<1, 2, 10, 9, 5, 4>>, <<3, 0, 8, 1, 2, 10, 4, 9, 5>>,
     <<5, 2, 10, 5, 4, 2, 4, 0, 2>>, <<2, 10, 5, 3, 2, 5, 3, 5, 4, 3, 4, 8>>,
     <<9, 5, 4, 2, 3, 11>>, <<0, 11, 2, 0, 8, 11, 4, 9, 5>>, <<0, 5, 4, 0, 1, 5, 2, 3, 11>>,
     <<2, 1, 5, 2, 5, 8, 2, 8, 11, 4, 8, 5>>, <<10, 3, 11, 10, 1, 3, 9, 5, 4>>,
     <<4, 9, 5, 0, 8, 1, 8, 10, 1, 8, 11, 10>>, <<5, 4, 0, 5, 0, 11, 5, 11, 10, 11, 0, 3>>,
     <<5, 4, 8, 5, 8, 10, 10, 8, 11>>, <<9, 7, 8, 5, 7, 9>>, <<9, 3, 0, 9, 5, 3, 5, 7, 3>>,
     <<0, 7, 8, 0, 1, 7, 1, 5, 7>>, <<1, 5, 3, 3, 5, 7>>, <<9, 7, 8, 9, 5, 7, 10, 1, 2>>,
     <<10, 1, 2, 9, 5, 0, 5, 3, 0, 5, 7, 3>>, <<8, 0, 2, 8, 2, 5, 8, 5, 7, 10, 5, 2>>,
     <<2, 10, 5, 2, 5, 3, 3, 5, 7>>, <<7, 9, 5, 7, 8, 9, 3, 11, 2>>,
     <<9, 5, 7, 9, 7, 2, 9, 2, 0, 2, 7, 11>>, <<2, 3, 11, 0, 1, 8, 1, 7, 8, 1, 5, 7>>,
     <<11, 2, 1, 11, 1, 7, 7, 1, 5>>, <<9, 5, 8, 8, 5, 7, 10, 1, 3, 10, 3, 11>>,
     <<5, 7, 0, 5, 0, 9, 7, 11, 0, 1, 0, 10, 11, 10, 0>>,
     <<11, 10, 0, 11, 0, 3, 10, 5, 0, 8, 0, 7, 5, 7, 0>>, <<11, 10, 5, 7, 11, 5>>, <<10, 6, 5>>,
     <<0, 8, 3, 5, 10, 6>>, <<9, 0, 1, 5, 10, 6>>, <<1, 8, 3, 1, 9, 8, 5, 10, 6>>,
     <<1, 6, 5, 2, 6, 1>>, <<1, 6, 5, 1, 2, 6, 3, 0, 8>>, <<9, 6, 5, 9, 0, 6, 0, 2, 6>>,
     <<5, 9, 8, 5, 8, 2, 5, 2, 6, 3, 2, 8>>, <<2, 3, 11, 10, 6, 5>>,
     <<11, 0, 8, 11, 2, 0, 10, 6, 5>>, <<0, 1, 9, 2, 3, 11, 5, 10, 6>>,
     <<5, 10, 6, 1, 9, 2, 9, 11, 2, 9, 8, 11>>, <<6, 3, 11, 6, 5, 3, 5, 1, 3>>,
     <<0, 8, 11, 0, 11, 5, 0, 5, 1, 5, 11, 6>>, <<3, 11, 6, 0, 3, 6, 0, 6, 5, 0, 5, 9>>,
     <<6, 5, 9, 6, 9, 11, 11, 9, 8>>, <<5, 10, 6, 4, 7, 8>>, <<4, 3, 0, 4, 7, 3, 6, 5, 10>>,
     <<1, 9, 0, 5, 10, 6, 8, 4, 7>>, <<10, 6, 5, 1, 9, 7, 1, 7, 3, 7, 9, 4>>,
     <<6, 1, 2, 6, 5, 1, 4, 7, 8>>, <<1, 2, 5, 5, 2, 6, 3, 0, 4, 3, 4, 7>>,
     <<8, 4, 7, 9, 0, 5, 0, 6, 5, 0, 2, 6>>, <<7, 3, 9, 7, 9, 4, 3, 2, 9, 5, 9, 6, 2, 6, 9>>,
     <<3, 11, 2, 7, 8, 4, 10, 6, 5>>, <<5, 10, 6, 4, 7, 2, 4, 2, 0, 2, 7, 11>>,
     <<0, 1, 9, 4, 7, 8, 2, 3, 11, 5, 10, 6>>,
     <<9, 2, 1, 9, 11, 2, 9, 4, 11, 7, 11, 4, 5, 10, 6>>,
     <<8, 4, 7, 3, 11, 5, 3, 5, 1, 5, 11, 6>>,
     <<5, 1, 11, 5, 11, 6, 1, 0, 11, 7, 11, 4, 0, 4, 11>>,
     <<0, 5, 9, 0, 6, 5, 0, 3, 6, 11, 6, 3, 8, 4, 7>>, <<6, 5, 9, 6, 9, 11, 4, 7, 9, 7, 11, 9>>,
     <<10, 4, 9, 6, 4, 10>>, <<4, 10, 6, 4, 9, 10, 0, 8, 3>>, <<10, 0, 1, 10, 6, 0, 6, 4, 0>>,
     <<8, 3, 1, 8, 1, 6, 8, 6, 4, 6, 1, 10>>, <<1, 4, 9, 1, 2, 4, 2, 6, 4>>,
     <<3, 0, 8, 1, 2, 9, 2, 4, 9, 2, 6, 4>>, <<0, 2, 4, 4, 2, 6>>, <<8, 3, 2, 8, 2, 4, 4, 2, 6>>,
     <<10, 4, 9, 10, 6, 4, 11, 2, 3>>, <<0, 8, 2, 2, 8, 11, 4, 9, 10, 4, 10, 6>>,
     <<3, 11, 2, 0, 1, 6, 0, 6, 4, 6, 1, 10>>,
     <<6, 4, 1, 6, 1, 10, 4, 8, 1, 2, 1, 11, 8, 11, 1>>, <<9, 6, 4, 9, 3, 6, 9, 1, 3, 11, 6, 3>>,
     <<8, 11, 1, 8, 1, 0, 11, 6, 1, 9, 1, 4, 6, 4, 1>>, <<3, 11, 6, 3, 6, 0, 0, 6, 4>>,
     <<6, 4, 8, 11, 6, 8>>, <<7, 10, 6, 7, 8, 10, 8, 9, 10>>,
     <<0, 7, 3, 0, 10, 7, 0, 9, 10, 6, 7, 10>>, <<10, 6, 7, 1, 10, 7, 1, 7, 8, 1, 8, 0>>,
     <<10, 6, 7, 10, 7, 1, 1, 7, 3>>, <<1, 2, 6, 1, 6, 8, 1, 8, 9, 8, 6, 7>>,
     <<2, 6, 9, 2, 9, 1, 6, 7, 9, 0, 9, 3, 7, 3, 9>>, <<7, 8, 0, 7, 0, 6, 6, 0, 2>>,
     <<7, 3, 2, 6, 7, 2>>, <<2, 3, 11, 10, 6, 8, 10, 8, 9, 8, 6, 7>>,
     <<2, 0, 7, 2, 7, 11, 0, 9, 7, 6, 7, 10, 9, 10, 7>>,
     <<1, 8, 0, 1, 7, 8, 1, 10, 7, 6, 7, 10, 2, 3, 11>>,
     <<11, 2, 1, 11, 1, 7, 10, 6, 1, 6, 7, 1>>, <<8, 9, 6, 8, 6, 7, 9, 1, 6, 11, 6, 3, 1, 3, 6>>,
     <<0, 9, 1, 11, 6, 7>>, <<7, 8, 0, 7, 0, 6, 3, 11, 0, 11, 6, 0>>, <<7, 11, 6>>, <<7, 6, 11>>,
     <<3, 0, 8, 11, 7, 6>>, <<0, 1, 9, 11, 7, 6>>, <<8, 1, 9, 8, 3, 1, 11, 7, 6>>,
     <<10, 1, 2, 6, 11, 7>>, <<1, 2, 10, 3, 0, 8, 6, 11, 7>>, <<2, 9, 0, 2, 10, 9, 6, 11, 7>>,
     <<6, 11, 7, 2, 10, 3, 10, 8, 3, 10, 9, 8>>, <<7, 2, 3, 6, 2, 7>>,
     <<7, 0, 8, 7, 6, 0, 6, 2, 0>>, <<2, 7, 6, 2, 3, 7, 0, 1, 9>>,
     <<1, 6, 2, 1, 8, 6, 1, 9, 8, 8, 7, 6>>, <<10, 7, 6, 10, 1, 7, 1, 3, 7>>,
     <<10, 7, 6, 1, 7, 10, 1, 8, 7, 1, 0, 8>>, <<0, 3, 7, 0, 7, 10, 0, 10, 9, 6, 10, 7>>,
     <<7, 6, 10, 7, 10, 8, 8, 10, 9>>, <<6, 8, 4, 11, 8, 6>>, <<3, 6, 11, 3, 0, 6, 0, 4, 6>>,
     <<8, 6, 11, 8, 4, 6, 9, 0, 1>>, <<9, 4, 6, 9, 6, 3, 9, 3, 1, 11, 3, 6>>,
     <<6, 8, 4, 6, 11, 8, 2, 10, 1>>, <<1, 2, 10, 3, 0, 11, 0, 6, 11, 0, 4, 6>>,
     <<4, 11, 8, 4, 6, 11, 0, 2, 9, 2, 10, 9>>,
     <<10, 9, 3, 10, 3, 2, 9, 4, 3, 11, 3, 6, 4, 6, 3>>, <<8, 2, 3, 8, 4, 2, 4, 6, 2>>,
     <<0, 4, 2, 4, 6, 2>>, <<1, 9, 0, 2, 3, 4, 2, 4, 6, 4, 3, 8>>, <<1, 9, 4, 1, 4, 2, 2, 4, 6>>,
     <<8, 1, 3, 8, 6, 1, 8, 4, 6, 6, 10, 1>>, <<10, 1, 0, 10, 0, 6, 6, 0, 4>>,
     <<4, 6, 3, 4, 3, 8, 6, 10, 3, 0, 3, 9, 10, 9, 3>>, <<10, 9, 4, 6, 10, 4>>,
     <<4, 9, 5, 7, 6, 11>>, <<0, 8, 3, 4, 9, 5, 11, 7, 6>>, <<5, 0, 1, 5, 4, 0, 7, 6, 11>>,
     <<11, 7, 6, 8, 3, 4, 3, 5, 4, 3, 1, 5>>, <<9, 5, 4, 10, 1, 2, 7, 6, 11>>,
     <<6, 11, 7, 1, 2, 10, 0, 8, 3, 4, 9, 5>>, <<7, 6, 11, 5, 4, 10, 4, 2, 10, 4, 0, 2>>,
     <<3, 4, 8, 3, 5, 4, 3, 2, 5, 10, 5, 2, 11, 7, 6>>, <<7, 2, 3, 7, 6, 2, 5, 4, 9>>,
     <<9, 5, 4, 0, 8, 6, 0, 6, 2, 6, 8, 7>>, <<3, 6, 2, 3, 7, 6, 1, 5, 0, 5, 4, 0>>,
     <<6, 2, 8, 6, 8, 7, 2, 1, 8, 4, 8, 5, 1, 5, 8>>, <<9, 5, 4, 10, 1, 6, 1, 7, 6, 1, 3, 7>>,
     <<1, 6, 10, 1, 7, 6, 1, 0, 7, 8, 7, 0, 9, 5, 4>>,
     <<4, 0, 10, 4, 10, 5, 0, 3, 10, 6, 10, 7, 3, 7, 10>>,
     <<7, 6, 10, 7, 10, 8, 5, 4, 10, 4, 8, 10>>, <<6, 9, 5, 6, 11, 9, 11, 8, 9>>,
     <<3, 6, 11, 0, 6, 3, 0, 5, 6, 0, 9, 5>>, <<0, 11, 8, 0, 5, 11, 0, 1, 5, 5, 6, 11>>,
     <<6, 11, 3, 6, 3, 5, 5, 3, 1>>, <<1, 2, 10, 9, 5, 11, 9, 11, 8, 11, 5, 6>>,
     <<0, 11, 3, 0, 6, 11, 0, 9, 6, 5, 6, 9, 1, 2, 10>>,
     <<11, 8, 5, 11, 5, 6, 8, 0, 5, 10, 5, 2, 0, 2, 5>>,
     <<6, 11, 3, 6, 3, 5, 2, 10, 3, 10, 5, 3>>, <<5, 8, 9, 5, 2, 8, 5, 6, 2, 3, 8, 2>>,
     <<9, 5, 6, 9, 6, 0, 0, 6, 2>>, <<1, 5, 8, 1, 8, 0, 5, 6, 8, 3, 8, 2, 6, 2, 8>>,
     <<1, 5, 6, 2, 1, 6>>, <<1, 3, 6, 1, 6, 10, 3, 8, 6, 5, 6, 9, 8, 9, 6>>,
     <<10, 1, 0, 10, 0, 6, 9, 5, 0, 5, 6, 0>>, <<0, 3, 8, 5, 6, 10>>, <<10, 5, 6>>,
     <<11, 5, 10, 7, 5, 11>>, <<11, 5, 10, 11, 7, 5, 8, 3, 0>>, <<5, 11, 7, 5, 10, 11, 1, 9, 0>>,
     <<10, 7, 5, 10, 11, 7, 9, 8, 1, 8, 3, 1>>, <<11, 1, 2, 11, 7, 1, 7, 5, 1>>,
     <<0, 8, 3, 1, 2, 7, 1, 7, 5, 7, 2, 11>>, <<9, 7, 5, 9, 2, 7, 9, 0, 2, 2, 11, 7>>,
     <<7, 5, 2, 7, 2, 11, 5, 9, 2, 3, 2, 8, 9, 8, 2>>, <<2, 5, 10, 2, 3, 5, 3, 7, 5>>,
     <<8, 2, 0, 8, 5, 2, 8, 7, 5, 10, 2, 5>>, <<9, 0, 1, 5, 10, 3, 5, 3, 7, 3, 10, 2>>,
     <<9, 8, 2, 9, 2, 1, 8, 7, 2, 10, 2, 5, 7, 5, 2>>, <<1, 3, 5, 3, 7, 5>>,
     <<0, 8, 7, 0, 7, 1, 1, 7, 5>>, <<9, 0, 3, 9, 3, 5, 5, 3, 7>>, <<9, 8, 7, 5, 9, 7>>,
     <<5, 8, 4, 5, 10, 8, 10, 11, 8>>, <<5, 0, 4, 5, 11, 0, 5, 10, 11, 11, 3, 0>>,
     <<0, 1, 9, 8, 4, 10, 8, 10, 11, 10, 4, 5>>,
     <<10, 11, 4, 10, 4, 5, 11, 3, 4, 9, 4, 1, 3, 1, 4>>,
     <<2, 5, 1, 2, 8, 5, 2, 11, 8, 4, 5, 8>>,
     <<0, 4, 11, 0, 11, 3, 4, 5, 11, 2, 11, 1, 5, 1, 11>>,
     <<0, 2, 5, 0, 5, 9, 2, 11, 5, 4, 5, 8, 11, 8, 5>>, <<9, 4, 5, 2, 11, 3>>,
     <<2, 5, 10, 3, 5, 2, 3, 4, 5, 3, 8, 4>>, <<5, 10, 2, 5, 2, 4, 4, 2, 0>>,
     <<3, 10, 2, 3, 5, 10, 3, 8, 5, 4, 5, 8, 0, 1, 9>>, <<5, 10, 2, 5, 2, 4, 1, 9, 2, 9, 4, 2>>,
     <<8, 4, 5, 8, 5, 3, 3, 5, 1>>, <<0, 4, 5, 1, 0, 5>>, <<8, 4, 5, 8, 5, 3, 9, 0, 5, 0, 3, 5>>,
     <<9, 4, 5>>, <<4, 11, 7, 4, 9, 11, 9, 10, 11>>, <<0, 8, 3, 4, 9, 7, 9, 11, 7, 9, 10, 11>>,
     <<1, 10, 11, 1, 11, 4, 1, 4, 0, 7, 4, 11>>,
     <<3, 1, 4, 3, 4, 8, 1, 10, 4, 7, 4, 11, 10, 11, 4>>,
     <<4, 11, 7, 9, 11, 4, 9, 2, 11, 9, 1, 2>>,
     <<9, 7, 4, 9, 11, 7, 9, 1, 11, 2, 11, 1, 0, 8, 3>>, <<11, 7, 4, 11, 4, 2, 2, 4, 0>>,
     <<11, 7, 4, 11, 4, 2, 8, 3, 4, 3, 2, 4>>, <<2, 9, 10, 2, 7, 9, 2, 3, 7, 7, 4, 9>>,
     <<9, 10, 7, 9, 7, 4, 10, 2, 7, 8, 7, 0, 2, 0, 7>>,
     <<3, 7, 10, 3, 10, 2, 7, 4, 10, 1, 10, 0, 4, 0, 10>>, <<1, 10, 2, 8, 7, 4>>,
     <<4, 9, 1, 4, 1, 7, 7, 1, 3>>, <<4, 9, 1, 4, 1, 7, 0, 8, 1, 8, 7, 1>>, <<4, 0, 3, 7, 4, 3>>,
     <<4, 8, 7>>, <<9, 10, 8, 10, 11, 8>>, <<3, 0, 9, 3, 9, 11, 11, 9, 10>>,
     <<0, 1, 10, 0, 10, 8, 8, 10, 11>>, <<3, 1, 10, 11, 3, 10>>,
     <<1, 2, 11, 1, 11, 9, 9, 11, 8>>, <<3, 0, 9, 3, 9, 11, 1, 2, 9, 2, 11, 9>>,
     <<0, 2, 11, 8, 0, 11>>, <<3, 2, 11>>, <<2, 3, 8, 2, 8, 10, 10, 8, 9>>,
     <<9, 10, 2, 0, 9, 2>>, <<2, 3, 8, 2, 8, 10, 0, 1, 8, 1, 10, 8>>, <<1, 10, 2>>,
     <<1, 3, 8, 9, 1, 8>>, <<0, 9, 1>>, <<0, 3, 8>>, <<>> >>
DegenerateTable == [id \in 1..256 |-> <<0, 8, 3>>]

Assets == {"canonical", "degenerate"}
from_str(file) == IF file = "canonical" THEN CanonicalTable ELSE DegenerateTable
\* Dereferencing the lazy_static: the first use reads the file, later ones do not.
Deref(loaded, file) == IF loaded = "unloaded" THEN file ELSE loaded
TRI_TABLE(loaded) == from_str(loaded)

---------------------------------------------------------------------------
(* Matrix3D: three dimensions and one f32 per integer index. *)
Box(x, y, z) == (0..(x - 1)) \X (0..(y - 1)) \X (0..(z - 1))
Matrix3D_new(x, y, z) == [dims |-> <<x, y, z>>, data |-> [v \in Box(x, y, z) |-> 0]]
InMatrix(m, v) == v \in DOMAIN m.data
matrix_get(m, v) == m.data[v]
matrix_set(m, v, val) == [m EXCEPT !.data[v] = val]

---------------------------------------------------------------------------
(* marching_cubes.rs: get_cube_tris *)
CornerIndex(vector, i) ==
  <<vector[1] + CUBE_POINTS[i + 1][1],
    vector[2] + CUBE_POINTS[i + 1][2],
    vector[3] + CUBE_POINTS[i + 1][3]>>
cube_reads(vector) == [i \in 0..7 |-> CornerIndex(vector, i)]
cube_vals(m, vector) == [i \in 0..7 |-> matrix_get(m, CornerIndex(vector, i))]

BelowOrAt(val) == FLt(val, CUTOFF) \/ val = CUTOFF
Below(val) == FLt(val, CUTOFF)
Pow2Shifted(i) == 2 ^ (i + 1)
Pow2(i) == 2 ^ i
RECURSIVE cube_id(_, _)
cube_id(vals, i) ==
  IF i = 8 THEN 0
  ELSE (IF Below(vals[i]) THEN Pow2(i) ELSE 0) + cube_id(vals, i + 1)

\* the two weights the wrong way round
edge_weights_swapped(start_density, end_density) ==
  IF FLt(end_density, start_density)
  THEN LET start_weight == FDiv(FSub(CUTOFF, end_density),
                                FSub(start_density, end_density))
       IN  <<FSub(One, start_weight), start_weight>>
  ELSE LET end_weight == FDiv(FSub(CUTOFF, start_density),
                              FSub(end_density, start_density))
       IN  <<end_weight, FSub(One, end_weight)>>

\* <<start_weight, end_weight>> of lines 66-74
edge_weights(start_density, end_density) ==
  IF FLt(end_density, start_density)
  THEN LET start_weight == FDiv(FSub(CUTOFF, end_density),
                                FSub(start_density, end_density))
       IN  <<start_weight, FSub(One, start_weight)>>
  ELSE LET end_weight == FDiv(FSub(CUTOFF, start_density),
                              FSub(end_density, start_density))
       IN  <<FSub(One, end_weight), end_weight>>

\* One pass of the loop body of lines 60-79, with its locals.
edge_crossing(e, vals) ==
  LET edge == CUBE_EDGES[e + 1]
      start == CUBE_POINTS[edge[1] + 1]
      end == CUBE_POINTS[edge[2] + 1]
      w == edge_weights(vals[edge[1]], vals[edge[2]])
  IN  [edge |-> e, from |-> edge[1], to |-> edge[2],
       start_density |-> vals[edge[1]], end_density |-> vals[edge[2]],
       start_weight |-> w[1], end_weight |-> w[2],
       point |-> <<FAdd(FMul(F32(start[1]), w[1]), FMul(F32(end[1]), w[2])),
                   FAdd(FMul(F32(start[2]), w[1]), FMul(F32(end[2]), w[2])),
                   FAdd(FMul(F32(start[3]), w[1]), FMul(F32(end[3]), w[2]))>>]

row_edges(row, vals) ==
  [k \in 1..(3 * (Len(row) \div 3)) |-> edge_crossing(row[k], vals)]

\* The call's locals; tris is what it returns.  fault names the index that is
\* out of range, if one is: a corner outside the matrix, an id outside the table.
get_cube_tris(m, vector, table) ==
  IF \E i \in 0..7 : ~InMatrix(m, CornerIndex(vector, i))
  THEN [origin |-> vector, reads |-> cube_reads(vector), vals |-> <<>>, id |-> -1,
        edges |-> <<>>, tris |-> <<>>, fault |-> "matrix"]
  ELSE
  LET vals == cube_vals(m, vector)
      id == cube_id(vals, 0)
  IN  IF id < 0 \/ id >= Len(table)
      THEN [origin |-> vector, reads |-> cube_reads(vector), vals |-> vals, id |-> id,
            edges |-> <<>>, tris |-> <<>>, fault |-> "table"]
      ELSE LET edges == row_edges(table[id + 1], vals) \o <<>>
           IN  [origin |-> vector, reads |-> cube_reads(vector), vals |-> vals,
                id |-> id, edges |-> edges,
                tris |-> [k \in DOMAIN edges |-> edges[k].point], fault |-> "none"]

NoCube == [origin |-> <<>>, reads |-> <<>>, vals |-> <<>>, id |-> -1,
           edges |-> <<>>, tris |-> <<>>, fault |-> "none"]

---------------------------------------------------------------------------
(* marching_cubes.rs: correct, get_mesh_data, MeshData::get_mesh_data *)
\* correct with the world-space origin of the running call's chunk added
correct_world(pts, sc, displace) ==
  [k \in DOMAIN pts |->
     [a \in 1..3 |->
        FAdd(FAdd(FMul(pts[k][a], sc), FMul(F32(displace[a]), sc)),
             FMul(F32(chunk[a] * terrain.points_per_chunk), terrain.scale))]]
correct(pts, sc, displace) ==
  [k \in DOMAIN pts |->
     <<FAdd(FMul(pts[k][1], sc), FMul(F32(displace[1]), sc)),
       FAdd(FMul(pts[k][2], sc), FMul(F32(displace[2]), sc)),
       FAdd(FMul(pts[k][3], sc), FMul(F32(displace[3]), sc))>>]

VSub(a, b) == <<FSub(a[1], b[1]), FSub(a[2], b[2]), FSub(a[3], b[3])>>
Cross(a, b) ==
  <<FSub(FMul(a[2], b[3]), FMul(a[3], b[2])),
    FSub(FMul(a[3], b[1]), FMul(a[1], b[3])),
    FSub(FMul(a[1], b[2]), FMul(a[2], b[1]))>>
\* line 116, for triangle i (from 0) of pts
tri_normal(pts, i) ==
  Cross(VSub(pts[i * 3 + 2], pts[i * 3 + 1]), VSub(pts[i * 3 + 3], pts[i * 3 + 2]))
\* lines 115-123: one normal per triangle, pushed once for each of its 3 vertices
cube_norms(pts) ==
  LET normal == [i \in 1..(Len(pts) \div 3) |-> tri_normal(pts, i - 1)] \o <<>>
  IN  [k \in 1..(3 * (Len(pts) \div 3)) |-> normal[((k - 1) \div 3) + 1]]
cube_coords(pts) == [k \in 1..(3 * (Len(pts) \div 3)) |-> <<0, 0>>]

\* a buffer kept from the call before
StaleVec == posns
NewVec == <<>>
\* the loops stopping one cube early, and running over every sample
LoopBoundShort(dim) == IF dim >= 2 THEN dim - 2 ELSE -1
LoopBoundFull(dim) == dim
\* matrix.x() - 1 in usize: -1 stands for the subtraction overflowing
LoopBound(dim) == IF dim >= 1 THEN dim - 1 ELSE -1
LoopDone == <<>>
FirstCube(m) ==
  IF \A a \in 1..3 : LoopBound(m.dims[a]) > 0 THEN <<0, 0, 0>> ELSE LoopDone
NextCube(c, m) ==
  IF c[1] + 1 < LoopBound(m.dims[1]) THEN <<c[1] + 1, c[2], c[3]>>
  ELSE IF c[2] + 1 < LoopBound(m.dims[2]) THEN <<0, c[2] + 1, c[3]>>
  ELSE IF c[3] + 1 < LoopBound(m.dims[3]) THEN <<0, 0, c[3] + 1>>
  ELSE LoopDone

U16(n) == n % (2 ^ 16)
\* (0..(len as u16)).collect()
IndexVec(len) == [i \in 1..U16(len) |-> i - 1]

NoChunk == <<>>
NoTerrain == [built |-> FALSE]
MeshOf(m, p, n, c) == [matrix |-> m, posns |-> p, norms |-> n, coords |-> c]


\* One pass of the innermost loop body of get_mesh_data (lines 107-123): the
\* get_cube_tris call with its locals, and what the pass appends.
mesh_pass(m, sc, vector, table) ==
  LET r == get_cube_tris(m, vector, table)
      pts == correct(r.tris, sc, vector) \o <<>>
  IN  [cube |-> r, pts |-> pts, norms |-> cube_norms(pts), coords |-> cube_coords(pts)]

MeshCube ==
  /\ pc = "mesh"
  /\ cube # LoopDone
  /\ TRIANGULATION' = Deref(TRIANGULATION, asset)
  /\ visited' = Append(visited, cube)
  /\ \E pass \in {mesh_pass(matrix, scale, cube, TRI_TABLE(Deref(TRIANGULATION, asset)))} :
       /\ last' = pass.cube
       /\ IF pass.cube.fault # "none"
          THEN /\ pc' = IF pass.cube.fault = "matrix" THEN "panic_matrix" ELSE "panic_table"
               /\ UNCHANGED <<cube, posns, norms, coords>>
          ELSE /\ posns' = posns \o pass.pts
               /\ norms' = norms \o pass.norms
               /\ coords' = coords \o pass.coords
               /\ cube' = NextCube(cube, matrix)
               /\ pc' = "mesh"
  /\ UNCHANGED <<asset, terrain, chunk, second, matrix, scale, indices, hist,
                 nPosns, nNorms, nCoords, nIndices>>

\* get_mesh_data returns MeshData (lines 127-131); through get_chunk (line 125)
\* the same value is what the caller of get_chunk receives.
MeshReturn ==
  /\ pc = "mesh"
  /\ cube = LoopDone
  /\ pc' = "meshdata"
  /\ hist' = IF chunk # NoChunk /\ chunk \notin DOMAIN hist
             THEN [c \in DOMAIN hist \cup {chunk} |->
                     IF c = chunk THEN MeshOf(matrix, posns, norms, coords) ELSE hist[c]]
             ELSE hist
  /\ UNCHANGED <<asset, TRIANGULATION, terrain, chunk, second, matrix, scale, cube,
                 posns, norms, coords, indices, visited, last,
                 nPosns, nNorms, nCoords, nIndices>>

\* MeshData::get_mesh_data (lines 153-160)
Unpack ==
  /\ pc = "meshdata"
  /\ pc' = "unpacked"
  /\ indices' = IndexVec(Len(posns))
  /\ UNCHANGED <<asset, TRIANGULATION, terrain, chunk, second, matrix, scale, cube,
                 posns, norms, coords, visited, last, hist,
                 nPosns, nNorms, nCoords, nIndices>>

---------------------------------------------------------------------------
(* terrain.rs *)
Seeds == {0, 1}
Scales == {F32(0), F32(1), F32(3)}
WeightLists == {<<>>, <<F32(0)>>, <<F32(1)>>, <<F32(1), Half>>}
ScaleLists == {<<>>, <<F32(1)>>, <<F32(1), F32(2)>>}
Chunks == {<<0, 0, 0>>, <<1, 0, 0>>, <<0, 1, 0>>}

\* StdRng seeded with the 16 seed bytes twice over; the k-th rng.gen() (from 0)
StdRng_gen(seed, k) == (5 * seed + 3 * k + 1) % 7
\* OpenSimplex::new().set_seed(s).get(p): a fixed function of the seed and the
\* point with values in [-1, 1], here a lattice pattern
OpenSimplex_get(s, p) ==
  (((s + 3 * (p[1] \div One) + 5 * (p[2] \div One) + 7 * (p[3] \div One)) % 5) - 2) * Half

floor == F32(-140)
cave == F32(-5)
surface == F32(0)
hills == F32(20)
air == F32(50)
Key(t, value) == [t |-> t, value |-> value]
upper_bound ==
  <<Key(floor, F32(-1)), Key(cave, Half), Key(surface, (35 * One) \div 100),
    Key(hills, (8 * One) \div 10), Key(air, F32(1))>>
lower_bound ==
  <<Key(floor, F32(-1)), Key(cave, 0 - Half), Key(surface, 0 - ((65 * One) \div 100)),
    Key(hills, 0 - ((2 * One) \div 10)), Key(air, F32(1))>>

\* Interpolation::Bezier(0.0) between two keys: the cubic through a, the tangent
\* point 0.0 of the first key, the mirrored tangent point 2b - 0.0 of the second, b
cubic_bezier(a, b, nt) ==
  LET u == One - nt
  IN  Quot(a * u * u * u + 3 * (2 * b) * u * nt * nt + b * nt * nt * nt, One * One * One)
\* Spline::clamped_sample(t).unwrap()
clamped_sample(keys, t) ==
  IF t <= keys[1].t THEN keys[1].value
  ELSE IF t >= keys[Len(keys)].t THEN keys[Len(keys)].value
  ELSE LET i == CHOOSE j \in 1..(Len(keys) - 1) : keys[j].t <= t /\ t < keys[j + 1].t
       IN  cubic_bezier(keys[i].value, keys[i + 1].value,
                        FDiv(t - keys[i].t, keys[i + 1].t - keys[i].t))

Terrain_new(seed, points_per_chunk, sc, noise_weights, noise_scales) ==
  [noise |-> [k \in 1..Len(noise_weights) |-> StdRng_gen(seed, k - 1)],
   noise_weights |-> noise_weights,
   noise_scales |-> noise_scales,
   points_per_chunk |-> points_per_chunk,
   scale |-> sc]

scaled_chunk(t, val) == FMul(F32(val * t.points_per_chunk), t.scale)
true_chunk(t, c) == <<scaled_chunk(t, c[1]), scaled_chunk(t, c[2]), scaled_chunk(t, c[3])>>
scaled_coord(t, chunk_val, coord_val) == FAdd(chunk_val, FMul(F32(coord_val), t.scale))
true_coord(t, tchunk, x, y, z) ==
  <<scaled_coord(t, tchunk[1], x), scaled_coord(t, tchunk[2], y),
    scaled_coord(t, tchunk[3], z)>>

\* lines 103-111: the weighted sum over the octaves i .. noise.len()
RECURSIVE noise_sum(_, _, _)
noise_sum(t, p, i) ==
  IF i > Len(t.noise) THEN 0
  ELSE FAdd(FMul(OpenSimplex_get(t.noise[i],
                                 <<FMul(p[1], t.noise_scales[i]),
                                   FMul(p[2], t.noise_scales[i]),
                                   FMul(p[3], t.noise_scales[i])>>),
                 t.noise_weights[i]),
            noise_sum(t, p, i + 1))
\* lines 113-116
adjusted_val(val, y) ==
  LET upper == clamped_sample(upper_bound, y)
      lower == clamped_sample(lower_bound, y)
      diff == FSub(upper, lower)
  IN  FAdd(FMul(FMul(FSub(val, F32(-1)), Half), diff), lower)
density(t, p) == adjusted_val(noise_sum(t, p, 1), p[2])

\* noise_scales[i] is indexed for every i below noise.len() = noise_weights.len()
ScalesIndexPanics(t) == Len(t.noise_weights) > Len(t.noise_scales)
get_matrix(t, c) ==
  LET points == t.points_per_chunk + 1
      tchunk == true_chunk(t, c)
  IN  [dims |-> <<points, points, points>>,
       data |-> [v \in Box(points, points, points) |->
                   density(t, true_coord(t, tchunk, v[1], v[2], v[3]))]]
chunk_size(t) == FMul(t.scale, F32(t.points_per_chunk))

New ==
  /\ pc = "start"
  /\ \E seed \in Seeds, points_per_chunk \in 0..MaxPoints, sc \in Scales,
        noise_weights \in WeightLists, noise_scales \in ScaleLists :
       terrain' = Terrain_new(seed, points_per_chunk, sc, noise_weights, noise_scales)
  /\ pc' = "idle"
  /\ UNCHANGED <<asset, TRIANGULATION, chunk, second, matrix, scale, cube,
                 posns, norms, coords, indices, visited, last, hist,
                 nPosns, nNorms, nCoords, nIndices>>

\* get_chunk up to the first pass of get_mesh_data's loops: get_matrix (lines
\* 92-122), then lines 100-106 of marching_cubes.rs.
GetChunk ==
  /\ pc \in {"idle", "meshdata", "unpacked"}
  /\ terrain # NoTerrain
  /\ \E c \in Chunks :
       /\ chunk' = c
       /\ second' = (c \in DOMAIN hist)
       /\ IF ScalesIndexPanics(terrain)
          THEN /\ pc' = "panic_scales"
               /\ UNCHANGED <<matrix, scale, cube>>
          ELSE \E m \in {get_matrix(terrain, c)} :
                 /\ matrix' = m
                 /\ scale' = terrain.scale
                 /\ cube' = FirstCube(m)
                 /\ pc' = IF \E a \in 1..3 : LoopBound(m.dims[a]) < 0
                          THEN "panic_underflow" ELSE "mesh"
  /\ posns' = NewVec
  /\ norms' = NewVec
  /\ coords' = NewVec
  /\ indices' = <<>>
  /\ visited' = <<>>
  /\ last' = NoCube
  /\ UNCHANGED <<asset, TRIANGULATION, terrain, hist, nPosns, nNorms, nCoords, nIndices>>

Init ==
  /\ pc = "start"
  /\ asset = "canonical"
  /\ TRIANGULATION = "unloaded"
  /\ terrain = NoTerrain
  /\ chunk = NoChunk
  /\ second = FALSE
  /\ matrix = Matrix3D_new(0, 0, 0)
  /\ scale = F32(0)
  /\ cube = LoopDone
  /\ posns = <<>> /\ norms = <<>> /\ coords = <<>>
  /\ indices = <<>>
  /\ visited = <<>>
  /\ last = NoCube
  /\ hist = <<>>
  /\ nPosns = 0 /\ nNorms = 0 /\ nCoords = 0 /\ nIndices = 0

Next == New \/ GetChunk \/ MeshCube \/ MeshReturn \/ Unpack
Spec == Init /\ [][Next]_vars

---------------------------------------------------------------------------
(* get_mesh_data called on one cube: every 2 x 2 x 2 volume over a palette. *)
Palettes == {{F32(-1), F32(0), F32(1)}, {F32(-3), F32(0), F32(1)}}

InitCube ==
  /\ pc = "mesh"
  /\ asset = "canonical"
  /\ TRIANGULATION = "unloaded"
  /\ terrain = NoTerrain
  /\ chunk = NoChunk
  /\ second = FALSE
  /\ \E palette \in Palettes : \E data \in [Box(2, 2, 2) -> palette] :
       matrix = [dims |-> <<2, 2, 2>>, data |-> data]
  /\ scale = F32(1)
  /\ cube = <<0, 0, 0>>
  /\ posns = <<>> /\ norms = <<>> /\ coords = <<>>
  /\ indices = <<>>
  /\ visited = <<>>
  /\ last = NoCube
  /\ hist = <<>>
  /\ nPosns = 0 /\ nNorms = 0 /\ nCoords = 0 /\ nIndices = 0

NextCubeSpec == MeshCube \/ MeshReturn \/ Unpack
SpecCube == InitCube /\ [][NextCubeSpec]_vars


(* The same calls with either asset file in place: any file of the shape the   *)
(* loader accepts (256 rows, each a multiple of 3 long, entries 0..11).        *)
InitTable ==
  /\ pc = "mesh"
  /\ asset \in Assets
  /\ TRIANGULATION = "unloaded"
  /\ terrain = NoTerrain
  /\ chunk = NoChunk
  /\ second = FALSE
  /\ \E data \in [Box(2, 2, 2) -> {F32(-1), F32(0), F32(1)}] :
       matrix = [dims |-> <<2, 2, 2>>, data |-> data]
  /\ scale = F32(1)
  /\ cube = <<0, 0, 0>>
  /\ posns = <<>> /\ norms = <<>> /\ coords = <<>>
  /\ indices = <<>>
  /\ visited = <<>>
  /\ last = NoCube
  /\ hist = <<>>
  /\ nPosns = 0 /\ nNorms = 0 /\ nCoords = 0 /\ nIndices = 0

SpecTable == InitTable /\ [][NextCubeSpec]_vars

---------------------------------------------------------------------------
(* The buffer lengths of get_mesh_data over a volume with many cubes: each   *)
(* pass appends the row of its cube's configuration, here a cube off the     *)
(* surface (id 0), a cube with one corner below (id 1) or a cube cut by a    *)
(* flat surface (id 15).                                                     *)
CountIds == {0, 1, 15}
row_len(id) == 3 * (Len(CanonicalTable[id + 1]) \div 3)

InitCount ==
  /\ pc = "count"
  /\ asset = "canonical"
  /\ TRIANGULATION = "canonical"
  /\ terrain = NoTerrain
  /\ chunk = NoChunk
  /\ second = FALSE
  /\ matrix = Matrix3D_new(0, 0, 0)
  /\ scale = F32(1)
  /\ cube = LoopDone
  /\ posns = <<>> /\ norms = <<>> /\ coords = <<>>
  /\ indices = <<>>
  /\ visited = <<>>
  /\ last = NoCube
  /\ hist = <<>>
  /\ nPosns = 0 /\ nNorms = 0 /\ nCoords = 0 /\ nIndices = 0

\* lines 110-123 for one cube: pts.len() positions, 3 * (pts.len() / 3) normals
\* and texture coordinates
CountCube ==
  /\ pc = "count"
  /\ nPosns < MaxVertices
  /\ \E id \in CountIds :
       /\ nPosns' = nPosns + row_len(id)
       /\ nNorms' = nNorms + 3 * (row_len(id) \div 3)
       /\ nCoords' = nCoords + 3 * (row_len(id) \div 3)
  /\ UNCHANGED <<pc, asset, TRIANGULATION, terrain, chunk, second, matrix, scale, cube,
                 posns, norms, coords, indices, visited, last, hist, nIndices>>

CountReturn ==
  /\ pc = "count"
  /\ pc' = "counted"
  /\ UNCHANGED <<asset, TRIANGULATION, terrain, chunk, second, matrix, scale, cube,
                 posns, norms, coords, indices, visited, last, hist,
                 nPosns, nNorms, nCoords, nIndices>>

\* (0..(self.posns.len() as u16)).collect() has posns.len() as u16 entries
CountUnpack ==
  /\ pc = "counted"
  /\ pc' = "count_unpacked"
  /\ nIndices' = U16(nPosns)
  /\ UNCHANGED <<asset, TRIANGULATION, terrain, chunk, second, matrix, scale, cube,
                 posns, norms, coords, indices, visited, last, hist,
                 nPosns, nNorms, nCoords>>

NextCount == CountCube \/ CountReturn \/ CountUnpack
SpecCount == InitCount /\ [][NextCount]_vars

---------------------------------------------------------------------------
(* Properties *)
Returned == pc \in {"meshdata", "unpacked"}
Corner(i) == <<F32(CUBE_POINTS[i + 1][1]), F32(CUBE_POINTS[i + 1][2]), F32(CUBE_POINTS[i + 1][3])>>
Between(a, x, b) == (a <= x /\ x <= b) \/ (b <= x /\ x <= a)

\* C1: the unpacked mesh has positions, normals and texcoords of one length, a
\* multiple of 3, and one index per vertex, 0 .. length-1, whatever the length.
C1_OneIndexPerVertex ==
  pc = "count_unpacked" =>
    /\ nPosns = nNorms /\ nNorms = nCoords
    /\ nPosns % 3 = 0
    /\ nIndices = nPosns

\* C2 (as stated): with identical densities, every vertex of chunk (1,0,0) is
\* the vertex of chunk (0,0,0) moved by points_per_chunk * scale along x.
SameVolume ==
  /\ {<<0, 0, 0>>, <<1, 0, 0>>} \subseteq DOMAIN hist
  /\ hist[<<0, 0, 0>>].matrix = hist[<<1, 0, 0>>].matrix
C2_OffsetByChunkSize ==
  SameVolume =>
    /\ Len(hist[<<1, 0, 0>>].posns) = Len(hist[<<0, 0, 0>>].posns)
    /\ \A k \in DOMAIN hist[<<0, 0, 0>>].posns :
         hist[<<1, 0, 0>>].posns[k] =
           <<FAdd(hist[<<0, 0, 0>>].posns[k][1], chunk_size(terrain)),
             hist[<<0, 0, 0>>].posns[k][2], hist[<<0, 0, 0>>].posns[k][3]>>

\* C2 (amended): with identical densities, get_chunk at (1,0,0) returns the very
\* positions of get_chunk at (0,0,0): positions are chunk-local, the same for
\* any two chunk coordinates whose volumes agree, and carry no chunk origin.
C2_ChunkLocal ==
  /\ SameVolume => hist[<<1, 0, 0>>].posns = hist[<<0, 0, 0>>].posns
  /\ \A c, d \in DOMAIN hist :
       hist[c].matrix = hist[d].matrix => hist[c].posns = hist[d].posns
C2_Witness ==
  /\ SameVolume
  /\ Len(hist[<<1, 0, 0>>].posns) > 0
  /\ chunk_size(terrain) > 0
  /\ Len(terrain.noise_weights) = Len(terrain.noise_scales)
  /\ Len(terrain.noise_weights) >= 1

\* C3: Terrain::new hands out no Terrain whose octave lists differ in length or
\* are empty, or whose scale is not positive.
ValidConfig(t) ==
  /\ Len(t.noise_weights) = Len(t.noise_scales)
  /\ Len(t.noise_weights) >= 1
  /\ FLt(F32(0), t.scale)
C3_RejectsBadConfig == pc # "start" => ValidConfig(terrain)

\* C4: a volume whose densities are all >= the cutoff, or all below it, yields
\* no triangle: the cube's id is 0 or 255 and its row is empty.
AllAbove(m) == \A v \in DOMAIN m.data : Finite(m.data[v]) /\ m.data[v] >= F32(0)
AllBelow(m) == \A v \in DOMAIN m.data : Finite(m.data[v]) /\ m.data[v] < F32(0)
C4_NoCrossingNoTriangles ==
  (AllAbove(matrix) \/ AllBelow(matrix)) =>
    /\ pc \notin {"panic_matrix", "panic_table"}
    /\ posns = <<>> /\ norms = <<>> /\ coords = <<>>
    /\ last # NoCube => (last.id \in {0, 255} /\ last.edges = <<>>)
C4_Witness ==
  /\ pc = "meshdata"
  /\ AllAbove(matrix)
  /\ \E v \in DOMAIN matrix.data : matrix.data[v] = CUTOFF
  /\ \E v \in DOMAIN matrix.data : matrix.data[v] # CUTOFF
  /\ last.id = 0

\* C5: over a volume of n+1 samples per axis the loops hand get_cube_tris the
\* n^3 origins of 0..n-1 cubed, each exactly once.
C5_EachCubeOnce ==
  (Returned /\ chunk # NoChunk) =>
    LET n == terrain.points_per_chunk
    IN  /\ matrix.dims = <<n + 1, n + 1, n + 1>>
        /\ Len(visited) = n * n * n
        /\ \A o \in Box(n, n, n) : Cardinality({k \in DOMAIN visited : visited[k] = o}) = 1
C5_Witness ==
  /\ pc = "meshdata"
  /\ terrain.points_per_chunk >= 2
  /\ Len(visited) >= 8

\* C6 (as stated): for every listed edge the weights are in [0,1] and sum to 1
\* and the crossing point lies strictly between the two corners.
WeightsOK(e) ==
  /\ Between(F32(0), e.start_weight, F32(1))
  /\ Between(F32(0), e.end_weight, F32(1))
  /\ FAdd(e.start_weight, e.end_weight) = F32(1)
OnSegment(e) == \A a \in 1..3 : Between(Corner(e.from)[a], e.point[a], Corner(e.to)[a])
StrictlyInside(e) == e.point # Corner(e.from) /\ e.point # Corner(e.to)
C6_StrictlyBetween ==
  \A k \in DOMAIN last.edges :
    WeightsOK(last.edges[k]) /\ OnSegment(last.edges[k]) /\ StrictlyInside(last.edges[k])

\* C6 (amended): for every listed edge the weights are in [0,1] and sum to 1 and
\* the crossing point lies on the closed segment between the two corners; when
\* one corner density is exactly the cutoff, the point is that corner itself.
C6_OnClosedSegment ==
  \A k \in DOMAIN last.edges :
    LET e == last.edges[k]
    IN  /\ WeightsOK(e)
        /\ OnSegment(e)
        /\ e.start_density = CUTOFF => e.point = Corner(e.from)
        /\ e.end_density = CUTOFF => e.point = Corner(e.to)
C6_Witness ==
  /\ \E k \in DOMAIN last.edges :
       /\ last.edges[k].start_density = CUTOFF
       /\ last.edges[k].point = Corner(last.edges[k].from)
  /\ \E k \in DOMAIN last.edges :
       /\ last.edges[k].start_weight # Half
       /\ StrictlyInside(last.edges[k])

C8_Deterministic ==
  (Returned /\ chunk \in DOMAIN hist) =>
    /\ hist[chunk] = MeshOf(matrix, posns, norms, coords)
    /\ pc = "unpacked" => indices = IndexVec(Len(hist[chunk].posns))
C8_Witness ==
  /\ pc = "unpacked"
  /\ second
  /\ Len(posns) > 0
  /\ Cardinality(DOMAIN hist) >= 2

\* C9: corner 0 at -1.0 and the other seven at +1.0 give id 1 and one triangle,
\* its vertices the midpoints of three distinct edges at corner 0.
SingleCorner(vals) ==
  /\ vals # <<>>
  /\ vals[0] = F32(-1)
  /\ \A i \in 1..7 : vals[i] = F32(1)
C9_SingleCornerTriangle ==
  SingleCorner(last.vals) =>
    /\ last.id = 1
    /\ Len(last.tris) = 3
    /\ Cardinality({last.edges[k].edge : k \in 1..3}) = 3
    /\ \A k \in 1..3 :
         LET e == last.edges[k]
         IN  /\ e.from = 0 \/ e.to = 0
             /\ e.start_weight = Half /\ e.end_weight = Half
             /\ \A a \in 1..3 : 2 * e.point[a] = Corner(e.from)[a] + Corner(e.to)[a]
             /\ last.tris[k] = e.point
C9_Witness ==
  /\ pc = "meshdata"
  /\ SingleCorner(last.vals)
  /\ Len(posns) = 3

\* C10: every density read of get_chunk is inside the allocated volume, the
\* loop bound dim - 1 does not underflow, and the configuration id is in 0..255.
C10_IndicesInRange ==
  /\ pc \notin {"panic_matrix", "panic_table", "panic_underflow"}
  /\ pc = "mesh" => \A a \in 1..3 : matrix.dims[a] >= 1
  /\ last # NoCube =>
       /\ \A i \in 0..7 : \A a \in 1..3 :
            0 <= last.reads[i][a] /\ last.reads[i][a] <= matrix.dims[a] - 1
       /\ last.id \in 0..255
       /\ last.id + 1 \in DOMAIN TRI_TABLE(TRIANGULATION)
C10_Witness ==
  /\ pc = "mesh"
  /\ terrain.points_per_chunk >= 2
  /\ last # NoCube
  /\ last.reads[6] = <<matrix.dims[1] - 1, matrix.dims[2] - 1, matrix.dims[3] - 1>>

=============================================================================
